---- MODULE Spec2Model ----
(***************************************************************************)
(* Model of tutorials/discrete_multi_fidelity_bo.ipynb: the notebook's     *)
(* cells run top to bottom; the two optimization loops advance one         *)
(* iteration per step.                                                     *)
(*                                                                         *)
(* Numbers: every tensor entry and every cost is kept in hundredths        *)
(* (0.5 is 50, 0.75 is 75, 1.0 is 100, 5.0 is 500).  All the values the    *)
(* notebook adds up (5.0 + s for s in 0.5, 0.75, 1.0) are dyadic, so the   *)
(* float64 sums are exact and integer hundredths lose nothing.  The values *)
(* of the test function are rounded to the nearest hundredth.              *)
(* Python indices are 0-based; a tensor is a sequence of rows, so column   *)
(* c of the code is position c + 1 of a row.                               *)
(*                                                                         *)
(* Calls into torch / botorch / gpytorch are outside the notebook.  Each   *)
(* is modelled by its contract: it either raises, or returns a value of    *)
(* the documented shape inside the given bounds, chosen among a bounded    *)
(* family of draws.                                                        *)
(***************************************************************************)
EXTENDS Integers, Sequences, FiniteSets, TLC

VARIABLES SMOKE_TEST, pc, it, failed_at, train_x, train_obj, cumulative_cost,
          N_ITER, model, mfkg_acqf, ei_acqf, new_x, new_obj, cost, final_rec,
          printed_total_cost, calls

vars == <<SMOKE_TEST, pc, it, failed_at, train_x, train_obj, cumulative_cost,
          N_ITER, model, mfkg_acqf, ei_acqf, new_x, new_obj, cost, final_rec,
          printed_total_cost, calls>>

(* ----------------------------- bounds ---------------------------------- *)

\* design coordinates are drawn from the grid 0, 1/GridSteps, ..., 1
GridSteps == 2
\* a random draw, and the outcome of an optimizer call, is one of the outcomes
\* numbered 0..MaxSeed (the state of the random generator)
MaxSeed == 3

(* ------------------------ program constants ---------------------------- *)

N_INIT == 16
Q_BATCH == 4
DIM == 7
fixed_cost == 500
FULL_N_ITER == 3
SMOKE_N_ITER == 1

\* os.environ.get("SMOKE_TEST"): None is <<>>, a string s is <<s>>
EnvValues == {<<>>, <<"">>, <<"1">>, <<"0">>}

\* Python truthiness of an Optional[str]
Truthy(v) == v # <<>> /\ v[1] # ""

\* variant: the fidelity levels of the helper's description, 0, 0.5, 1.0
fidelitiesFromZero == <<0, 50, 100>>

fidelities == <<50, 75, 100>>
target_fidelities == (6 :> 100)
fidelity_weights == (6 :> 1)

(* --------------------------- tensor helpers ---------------------------- *)

\* sum of the first n entries of a 1-d tensor
RECURSIVE SumTo(_, _)
SumTo(s, n) == IF n = 0 THEN 0 ELSE s[n] + SumTo(s, n - 1)

\* Tensor.sum() of a 1-d tensor
SumSeq(s) == SumTo(s, Len(s))

\* Tensor.max() of a non-empty 1-d tensor
MaxSeq(s) == CHOOSE m \in {s[k] : k \in 1..Len(s)} : \A k \in 1..Len(s) : s[k] <= m

\* variant: the new rows replace the old ones instead of being appended
Cat0Overwrite(A, B) == B

\* torch.cat(..., dim=0) and torch.cat(..., dim=1)
Cat0(A, B) == A \o B
Cat1(A, B) == [i \in 1..Len(A) |-> A[i] \o B[i]]

\* t.unsqueeze(-1) of a 1-d tensor
Unsqueeze(t) == [i \in 1..Len(t) |-> <<t[i]>>]

\* X[:, c] for a 0-based column c
Column(X, c) == [i \in 1..Len(X) |-> X[i][c + 1]]

GridPoint(k) == (100 * k) \div GridSteps

Seeds == 0..MaxSeed

\* an n x cols tensor with entries in [0, 1]: torch.rand under seed r, and
\* the points an optimizer returns inside the unit box
BoxDraw(n, cols, r) ==
    [i \in 1..n |-> [j \in 1..cols |-> GridPoint((r + i + j) % (GridSteps + 1))]]

\* index drawn for row i out of 0..k-1 under seed p: seeds 0..k-1 give every
\* row the same index, later seeds give the rows different ones
PatternIndex(p, i, k) == ((p % k) + (p \div k) * i) % k

\* torch.randint(high, (n, 1)) under seed p
RandintDraw(high, n, p) == [i \in 1..n |-> <<PatternIndex(p, i, high)>>]

(* The test function, problem = AugmentedHartmann(negate=True): for a row x  *)
(* of 7 coordinates,                                                       *)
(*   sum over i of alpha_i * exp(-sum over j of A[i][j] * (x_j - P[i][j])^2) *)
(* with alpha_1 = 1.0 - 0.1 * (1 - x_7).  It is computed in fixed point    *)
(* inside 32-bit integers and rounded to the nearest hundredth.            *)

\* ALPHA in thousandths (the first entry is replaced by HartmannAlpha1)
HartmannALPHA == <<1000, 1200, 3000, 3200>>

\* A in hundredths
HartmannA == << <<1000, 300, 1700, 350, 170, 800>>,
                <<5, 1000, 1700, 10, 800, 1400>>,
                <<300, 350, 170, 1000, 1700, 800>>,
                <<1700, 800, 5, 1000, 10, 1400>> >>

\* P in ten-thousandths
HartmannP == << <<1312, 1696, 5569, 124, 8283, 5886>>,
                <<2329, 4135, 8307, 3736, 1004, 9991>>,
                <<2348, 1451, 3522, 2883, 3047, 6650>>,
                <<4047, 8828, 8732, 5743, 1091, 381>> >>

\* 1.0 in the fixed-point scale of the exponentials (seven decimals)
FixOne == 10000000

\* exp(-k) for k = 0..16, exp(-a/10) and exp(-b/100) for a, b = 0..9
ExpInt == <<10000000, 3678794, 1353353, 497871, 183156, 67379, 24788, 9119,
            3355, 1234, 454, 167, 61, 23, 8, 3, 1>>
ExpTenth == <<10000000, 9048374, 8187308, 7408182, 6703200, 6065307, 5488116,
              4965853, 4493290, 4065697>>
ExpHundredth == <<10000000, 9900498, 9801987, 9704455, 9607894, 9512294,
                  9417645, 9323938, 9231163, 9139312>>

\* a * b for a, b in [0, 1] at scale FixOne
MulFix(a, b) ==
    LET ah == a \div 10000
        al == a % 10000
        bh == b \div 10000
        bl == b % 10000
    IN  ah * bh * 10 + ((ah * bl + al * bh) + (al * bl) \div 10000) \div 1000

\* exp(-g) for g millionths, 0 <= g < 0.01
ExpSmall(g) ==
    FixOne - g * 10 + (g * g) \div 200000 - (((g * g) \div 1000) * g) \div 600000000

\* exp(-s) for s >= 0 in millionths
ExpNeg(s) ==
    LET k == s \div 1000000
        frac == s % 1000000
    IN  IF k > 16 THEN 0
        ELSE MulFix(MulFix(ExpInt[k + 1], ExpTenth[(frac \div 100000) + 1]),
                    MulFix(ExpHundredth[((frac % 100000) \div 10000) + 1],
                           ExpSmall(frac % 10000)))

\* A[i][j] * (x_j - P[i][j])^2 in millionths
HartmannTerm(i, j, x) ==
    LET d == 100 * x[j] - HartmannP[i][j]
        d2 == d * d
    IN  ((d2 \div 100) * HartmannA[i][j] + ((d2 % 100) * HartmannA[i][j]) \div 100) \div 100

HartmannInner(i, x) == SumSeq([j \in 1..6 |-> HartmannTerm(i, j, x)])

\* alpha1 = ALPHA[0] - 0.1 * (1 - X[..., 6]), in thousandths
HartmannAlpha1(x) == HartmannALPHA[1] - (100 - x[7])

\* alpha_i * exp(-inner_i) at scale 10^8
HartmannSummand(i, x) ==
    LET al == IF i = 1 THEN HartmannAlpha1(x) ELSE HartmannALPHA[i]
        e == ExpNeg(HartmannInner(i, x))
    IN  al * (e \div 10000) * 100 + (al * (e % 10000)) \div 100

\* the negated augmented Hartmann value of one row, in hundredths
AugmentedHartmann(x) ==
    (SumSeq([i \in 1..4 |-> HartmannSummand(i, x)]) + 500000) \div 1000000

\* problem(X): one value per row
problem(X) == [i \in 1..Len(X) |-> AugmentedHartmann(X[i])]

\* variant: the fixed cost is left out
cost_model_no_fixed(X) ==
    [i \in 1..Len(X) |-> <<fidelity_weights[6] * X[i][6 + 1]>>]

\* AffineFidelityCostModel.forward: fixed_cost + sum of weight * X[..., col]
\* over the weighted columns (here the single column 6); result is n x 1
cost_model(X) ==
    [i \in 1..Len(X) |-> <<fixed_cost + fidelity_weights[6] * X[i][6 + 1]>>]

\* sum of all entries of an n x 1 tensor
TensorSum(T) == SumSeq([i \in 1..Len(T) |-> T[i][1]])

\* fixed_features of optimize_acqf: the listed columns are pinned
FixFeatures(x, ff) == [j \in 1..Len(x) |-> IF (j - 1) \in DOMAIN ff THEN ff[j - 1] ELSE x[j]]

\* number of fixed columns strictly before 0-based column c
FixedBefore(columns, c) == Cardinality({k \in 1..Len(columns) : columns[k] < c})

\* position of 0-based column c in the list of fixed columns
FixedPos(columns, c) == CHOOSE k \in 1..Len(columns) : columns[k] = c

\* FixedFeatureAcquisitionFunction._construct_X_full: widen every row of X
\* to d columns, putting values[k] at columns[k] and X's entries elsewhere
ConstructXFull(acqf, X) ==
    [i \in 1..Len(X) |->
        [j \in 1..acqf.d |->
            IF \E k \in 1..Len(acqf.columns) : acqf.columns[k] = j - 1
            THEN acqf.values[FixedPos(acqf.columns, j - 1)]
            ELSE X[i][j - FixedBefore(acqf.columns, j - 1)]]]

(* --------------------- the notebook's definitions ---------------------- *)

\* the values NUM_RESTARTS and RAW_SAMPLES get under flag value flag
NumRestartsUnder(flag) == IF ~Truthy(flag) THEN 10 ELSE 2
RawSamplesUnder(flag) == IF ~Truthy(flag) THEN 512 ELSE 4

NUM_RESTARTS == NumRestartsUnder(SMOKE_TEST)
RAW_SAMPLES == RawSamplesUnder(SMOKE_TEST)

\* what generate_initial_data(n) can return: one result per random draw
generate_initial_data(n) ==
    { LET tx == BoxDraw(n, 6, seed)
          idx == RandintDraw(3, n, seed)
          train_f == [i \in 1..n |-> <<fidelities[idx[i][1] + 1]>>]
          train_x_full == Cat1(tx, train_f)
      IN  [x |-> train_x_full, obj |-> Unsqueeze(problem(train_x_full))]
      : seed \in Seeds }

\* the surrogate is kept as the data it was built on and whether it was fitted
initialize_model(tx, tobj) ==
    [n |-> Len(tx), m |-> Len(tobj), data_fidelity |-> 6, fitted |-> FALSE]

fit_gpytorch_model(mdl) == [mdl EXCEPT !.fitted = TRUE]

\* variant: the fidelity column is pinned to the lowest fidelity
FixedFeatureAcqfLow(kind) == [kind |-> kind, d |-> 7, columns |-> <<6>>, values |-> <<50>>]

\* FixedFeatureAcquisitionFunction(..., d=7, columns=[6], values=[1])
FixedFeatureAcqf(kind) == [kind |-> kind, d |-> 7, columns |-> <<6>>, values |-> <<100>>]

\* one record per library call that takes restart / raw-sample counts
\* (fixed is the call's fixed_features_list, empty when it has none)
CallRec(site, fn, q, nr, rs, fixed) ==
    [site |-> site, fn |-> fn, q |-> q, num_restarts |-> nr, raw_samples |-> rs,
     fixed |-> fixed]

\* the optimize_acqf call inside get_mfkg, as made under flag value flag
GetMfkgCall(flag) ==
    CallRec("get_mfkg", "optimize_acqf", 1,
            IF ~Truthy(flag) THEN 10 ELSE 2, IF ~Truthy(flag) THEN 1024 ELSE 4, <<>>)

get_mfkg(mdl) ==
    [kind |-> "qMultiFidelityKnowledgeGradient", model_n |-> mdl.n,
     num_fantasies |-> IF ~Truthy(SMOKE_TEST) THEN 128 ELSE 2,
     project |-> target_fidelities]

fixed_features_list == <<(6 :> 50), (6 :> 75), (6 :> 100)>>

\* (num_restarts=10 and raw_samples=512 are written out in the call)
GenOneShotCall(flag) ==
    CallRec("optimize_mfkg_and_get_observation", "gen_one_shot_kg_initial_conditions",
            4, 10, 512, <<>>)

MixedCall(flag) ==
    CallRec("optimize_mfkg_and_get_observation", "optimize_acqf_mixed", 4,
            NumRestartsUnder(flag), RawSamplesUnder(flag), fixed_features_list)

\* what optimize_acqf_mixed can return: q points of the box, each with the
\* columns of one entry of fixed_features_list pinned
OptimizeAcqfMixed(ffl, q) ==
    { [i \in 1..q |-> FixFeatures(BoxDraw(q, DIM, p)[i],
                                   ffl[PatternIndex(p, i, Len(ffl)) + 1])]
      : p \in Seeds }

\* what optimize_acqf can return for q points in cols dimensions
OptimizeAcqf(q, cols) == { BoxDraw(q, cols, p) : p \in Seeds }

\* optimize_mfkg_and_get_observation, given the optimizer's candidates
optimize_mfkg_and_get_observation(candidates) ==
    [new_x |-> candidates,
     new_obj |-> Unsqueeze(problem(candidates)),
     cost |-> TensorSum(cost_model(candidates))]

RecCall(flag) == CallRec("get_recommendation", "optimize_acqf", 1, 10, 512, <<>>)

\* variant: the optimizer's point is returned without the fidelity column
get_recommendation_raw(opt) == opt

\* get_recommendation, given the optimizer's 1 x 6 point
get_recommendation(opt) == ConstructXFull(FixedFeatureAcqf("PosteriorMean"), opt)

get_ei(mdl, best_f) ==
    [acqf |-> FixedFeatureAcqf("qExpectedImprovement"), model_n |-> mdl.n, best_f |-> best_f]

EICall(flag) == CallRec("optimize_ei_and_get_observation", "optimize_acqf", 4, 10, 512, <<>>)

\* optimize_ei_and_get_observation, given the fixed-feature wrapper of
\* ei_acqf and the optimizer's q x 6 points
optimize_ei_and_get_observation(acqf, opt) ==
    LET candidates == ConstructXFull(acqf, opt)
    IN  [new_x |-> candidates,
         new_obj |-> Unsqueeze(problem(candidates)),
         cost |-> TensorSum(cost_model(candidates))]

\* the result of optimize_mfkg_and_get_observation for every batch that
\* optimize_acqf_mixed can return
MfkgObservations ==
    [c \in OptimizeAcqfMixed(fixed_features_list, Q_BATCH) |->
        optimize_mfkg_and_get_observation(c)]

\* the result of optimize_ei_and_get_observation for every batch that
\* optimize_acqf can return
EIObservations ==
    [opt \in OptimizeAcqf(Q_BATCH, DIM - 1) |->
        optimize_ei_and_get_observation(FixedFeatureAcqf("qExpectedImprovement"), opt)]

(* ------------------------------ the run -------------------------------- *)

\* library calls of one knowledge-gradient iteration, in execution order:
\* lines 305 and 306, get_mfkg, optimize_mfkg_and_get_observation, and the
\* two torch.cat of lines 309 and 310, and the Tensor addition of line 311
KGStages == <<"initialize_model", "fit_gpytorch_model", "get_mfkg.PosteriorMean",
              "get_mfkg.FixedFeatureAcquisitionFunction", "get_mfkg.optimize_acqf",
              "get_mfkg.qMultiFidelityKnowledgeGradient",
              "gen_one_shot_kg_initial_conditions", "optimize_acqf_mixed",
              "cost_model", "problem", "torch.cat(train_x)", "torch.cat(train_obj)",
              "Tensor.__add__">>

\* library calls of one expected-improvement iteration, in execution order
\* (Tensor.__getitem__ is the bounds[:,:-1] of line 408, evaluated before
\* optimize_acqf is entered; Tensor.__add__ is line 493)
EIStages == <<"initialize_model", "fit_gpytorch_model", "get_ei", "Tensor.__getitem__",
              "optimize_acqf", "cost_model", "problem", "torch.cat(train_x)",
              "torch.cat(train_obj)", "Tensor.__add__">>

\* library calls of a recommendation cell: those of get_recommendation, then
\* the formatting of the 0-dim tensor cumulative_cost in the print
RecStages == <<"PosteriorMean", "FixedFeatureAcquisitionFunction", "optimize_acqf",
               "problem", "Tensor.__format__">>

\* position of the call named name in the list stages
Stage(stages, name) == CHOOSE k \in 1..Len(stages) : stages[k] = name

\* library calls of generate_initial_data
GenStages == <<"problem">>

\* f = 0: nothing raises; f = k: the k-th library call of the step raises.
\* Call k is entered when no earlier call raised, and returns when it and no
\* earlier call raised.
Invoked(f, k) == f = 0 \/ f >= k
Returned(f, k) == f = 0 \/ f > k

Logged(f, k, call) == IF Invoked(f, k) THEN {call} ELSE {}

\* names that are not bound yet hold <<>> (N_ITER, cost and it hold 0)
Init ==
    /\ SMOKE_TEST \in EnvValues
    /\ pc = "cell12"
    /\ it = 0
    /\ failed_at = ""
    /\ train_x = <<>>
    /\ train_obj = <<>>
    /\ cumulative_cost = 0
    /\ N_ITER = 0
    /\ model = <<>>
    /\ mfkg_acqf = <<>>
    /\ ei_acqf = <<>>
    /\ new_x = <<>>
    /\ new_obj = <<>>
    /\ cost = 0
    /\ final_rec = <<>>
    /\ printed_total_cost = <<>>
    /\ calls = {}

\* variant: the flag test is inverted
N_ITER_value_inverted == IF Truthy(SMOKE_TEST) THEN FULL_N_ITER ELSE SMOKE_N_ITER

\* 3 if not SMOKE_TEST else 1
N_ITER_value == IF ~Truthy(SMOKE_TEST) THEN FULL_N_ITER ELSE SMOKE_N_ITER

\* train_x, train_obj = generate_initial_data(n=16)
Cell12(f, data) ==
    /\ pc = "cell12"
    /\ IF f = 0
       THEN /\ train_x' = data.x
            /\ train_obj' = data.obj
            /\ pc' = "cell14"
            /\ failed_at' = failed_at
       ELSE /\ pc' = "failed"
            /\ failed_at' = GenStages[f]
            /\ UNCHANGED <<train_x, train_obj>>
    /\ UNCHANGED <<SMOKE_TEST, it, cumulative_cost, N_ITER, model, mfkg_acqf, ei_acqf,
                   new_x, new_obj, cost, final_rec, printed_total_cost, calls>>

\* cumulative_cost = 0.0; N_ITER = 3 if not SMOKE_TEST else 1; loop entry
Cell14Head ==
    /\ pc = "cell14"
    /\ cumulative_cost' = 0
    /\ N_ITER' = N_ITER_value
    /\ it' = 0
    /\ pc' = "kg_loop"
    /\ UNCHANGED <<SMOKE_TEST, failed_at, train_x, train_obj, model, mfkg_acqf, ei_acqf,
                   new_x, new_obj, cost, final_rec, printed_total_cost, calls>>

\* variant: the training set is extended before the objective is evaluated,
\* so a failing evaluation leaves the new rows behind
KGIterationEager(f, candidates) ==
    /\ pc = "kg_loop"
    /\ it < N_ITER
    /\ LET mdl == initialize_model(train_x, train_obj)
           fitted == fit_gpytorch_model(mdl)
           acq == get_mfkg(fitted)
           res == MfkgObservations[candidates]
           helper_done == Returned(f, Stage(KGStages, "problem"))
       IN  /\ model' = IF Returned(f, Stage(KGStages, "fit_gpytorch_model")) THEN fitted
                       ELSE IF Returned(f, Stage(KGStages, "initialize_model")) THEN mdl
                       ELSE model
           /\ mfkg_acqf' =
                 IF Returned(f, Stage(KGStages, "get_mfkg.qMultiFidelityKnowledgeGradient"))
                 THEN acq ELSE mfkg_acqf
           /\ calls' = calls
                 \cup Logged(f, Stage(KGStages, "get_mfkg.optimize_acqf"),
                             GetMfkgCall(SMOKE_TEST))
                 \cup Logged(f, Stage(KGStages, "gen_one_shot_kg_initial_conditions"),
                             GenOneShotCall(SMOKE_TEST))
                 \cup Logged(f, Stage(KGStages, "optimize_acqf_mixed"),
                             MixedCall(SMOKE_TEST))
           /\ new_x' = IF helper_done THEN res.new_x ELSE new_x
           /\ new_obj' = IF helper_done THEN res.new_obj ELSE new_obj
           /\ cost' = IF helper_done THEN res.cost ELSE cost
           /\ train_x' = IF Returned(f, Stage(KGStages, "cost_model"))
                         THEN Cat0(train_x, res.new_x) ELSE train_x
           /\ train_obj' = IF Returned(f, Stage(KGStages, "torch.cat(train_obj)"))
                           THEN Cat0(train_obj, res.new_obj) ELSE train_obj
           /\ IF f = 0
              THEN /\ cumulative_cost' = cumulative_cost + res.cost
                   /\ it' = it + 1
                   /\ pc' = IF it + 1 = N_ITER THEN "cell17" ELSE "kg_loop"
                   /\ failed_at' = failed_at
              ELSE /\ pc' = "failed"
                   /\ failed_at' = KGStages[f]
                   /\ UNCHANGED <<cumulative_cost, it>>
    /\ UNCHANGED <<SMOKE_TEST, N_ITER, ei_acqf, final_rec, printed_total_cost>>

\* one pass through the body of the knowledge-gradient loop (lines 305-311):
\* the statements take effect one after the other, up to the call that raises
KGIteration(f, candidates) ==
    /\ pc = "kg_loop"
    /\ it < N_ITER
    /\ LET mdl == initialize_model(train_x, train_obj)
           fitted == fit_gpytorch_model(mdl)
           acq == get_mfkg(fitted)
           res == MfkgObservations[candidates]
           helper_done == Returned(f, Stage(KGStages, "problem"))
       IN  /\ model' = IF Returned(f, Stage(KGStages, "fit_gpytorch_model")) THEN fitted
                       ELSE IF Returned(f, Stage(KGStages, "initialize_model")) THEN mdl
                       ELSE model
           /\ mfkg_acqf' =
                 IF Returned(f, Stage(KGStages, "get_mfkg.qMultiFidelityKnowledgeGradient"))
                 THEN acq ELSE mfkg_acqf
           /\ calls' = calls
                 \cup Logged(f, Stage(KGStages, "get_mfkg.optimize_acqf"),
                             GetMfkgCall(SMOKE_TEST))
                 \cup Logged(f, Stage(KGStages, "gen_one_shot_kg_initial_conditions"),
                             GenOneShotCall(SMOKE_TEST))
                 \cup Logged(f, Stage(KGStages, "optimize_acqf_mixed"),
                             MixedCall(SMOKE_TEST))
           /\ new_x' = IF helper_done THEN res.new_x ELSE new_x
           /\ new_obj' = IF helper_done THEN res.new_obj ELSE new_obj
           /\ cost' = IF helper_done THEN res.cost ELSE cost
           /\ train_x' = IF Returned(f, Stage(KGStages, "torch.cat(train_x)"))
                         THEN Cat0(train_x, res.new_x) ELSE train_x
           /\ train_obj' = IF Returned(f, Stage(KGStages, "torch.cat(train_obj)"))
                           THEN Cat0(train_obj, res.new_obj) ELSE train_obj
           /\ IF f = 0
              THEN /\ cumulative_cost' = cumulative_cost + res.cost
                   /\ it' = it + 1
                   /\ pc' = IF it + 1 = N_ITER THEN "cell17" ELSE "kg_loop"
                   /\ failed_at' = failed_at
              ELSE /\ pc' = "failed"
                   /\ failed_at' = KGStages[f]
                   /\ UNCHANGED <<cumulative_cost, it>>
    /\ UNCHANGED <<SMOKE_TEST, N_ITER, ei_acqf, final_rec, printed_total_cost>>

\* final_rec = get_recommendation(model), then print total cost (cells 17
\* and 21): two statements, the first has taken effect when the second raises
Recommend(here, next, f, opt) ==
    /\ pc = here
    /\ calls' = calls \cup Logged(f, Stage(RecStages, "optimize_acqf"), RecCall(SMOKE_TEST))
    /\ IF f = 0
       THEN /\ printed_total_cost' = Append(printed_total_cost, cumulative_cost)
            /\ pc' = next
            /\ failed_at' = failed_at
       ELSE /\ pc' = "failed"
            /\ failed_at' = RecStages[f]
            /\ UNCHANGED printed_total_cost
    /\ final_rec' = IF Returned(f, Stage(RecStages, "problem"))
                    THEN get_recommendation(opt) ELSE final_rec
    /\ UNCHANGED <<SMOKE_TEST, it, train_x, train_obj, cumulative_cost, N_ITER, model,
                   mfkg_acqf, ei_acqf, new_x, new_obj, cost>>

Cell17(f, opt) == Recommend("cell17", "cell20", f, opt)

\* variant: the cell does not draw new initial data and goes on from the
\* training set it finds
Cell20HeadKeep(f, data) ==
    /\ pc = "cell20"
    /\ cumulative_cost' = 0
    /\ it' = 0
    /\ pc' = "ei_loop"
    /\ UNCHANGED <<SMOKE_TEST, failed_at, train_x, train_obj, N_ITER, model, mfkg_acqf,
                   ei_acqf, new_x, new_obj, cost, final_rec, printed_total_cost, calls>>

\* cumulative_cost = 0.0; train_x, train_obj = generate_initial_data(n=16); loop entry
Cell20Head(f, data) ==
    /\ pc = "cell20"
    /\ cumulative_cost' = 0
    /\ IF f = 0
       THEN /\ train_x' = data.x
            /\ train_obj' = data.obj
            /\ it' = 0
            /\ pc' = "ei_loop"
            /\ failed_at' = failed_at
       ELSE /\ pc' = "failed"
            /\ failed_at' = GenStages[f]
            /\ UNCHANGED <<train_x, train_obj, it>>
    /\ UNCHANGED <<SMOKE_TEST, N_ITER, model, mfkg_acqf, ei_acqf, new_x, new_obj, cost,
                   final_rec, printed_total_cost, calls>>

\* one pass through the body of the expected-improvement loop (lines 487-493)
EIIteration(f, opt) ==
    /\ pc = "ei_loop"
    /\ it < N_ITER
    /\ LET mdl == initialize_model(train_x, train_obj)
           fitted == fit_gpytorch_model(mdl)
           acq == get_ei(fitted, MaxSeq(Column(train_obj, 0)))
           res == EIObservations[opt]
           helper_done == Returned(f, Stage(EIStages, "problem"))
       IN  /\ model' = IF Returned(f, Stage(EIStages, "fit_gpytorch_model")) THEN fitted
                       ELSE IF Returned(f, Stage(EIStages, "initialize_model")) THEN mdl
                       ELSE model
           /\ ei_acqf' = IF Returned(f, Stage(EIStages, "get_ei")) THEN acq ELSE ei_acqf
           /\ calls' = calls \cup Logged(f, Stage(EIStages, "optimize_acqf"),
                                         EICall(SMOKE_TEST))
           /\ new_x' = IF helper_done THEN res.new_x ELSE new_x
           /\ new_obj' = IF helper_done THEN res.new_obj ELSE new_obj
           /\ cost' = IF helper_done THEN res.cost ELSE cost
           /\ train_x' = IF Returned(f, Stage(EIStages, "torch.cat(train_x)"))
                         THEN Cat0(train_x, res.new_x) ELSE train_x
           /\ train_obj' = IF Returned(f, Stage(EIStages, "torch.cat(train_obj)"))
                           THEN Cat0(train_obj, res.new_obj) ELSE train_obj
           /\ IF f = 0
              THEN /\ cumulative_cost' = cumulative_cost + res.cost
                   /\ it' = it + 1
                   /\ pc' = IF it + 1 = N_ITER THEN "cell21" ELSE "ei_loop"
                   /\ failed_at' = failed_at
              ELSE /\ pc' = "failed"
                   /\ failed_at' = EIStages[f]
                   /\ UNCHANGED <<cumulative_cost, it>>
    /\ UNCHANGED <<SMOKE_TEST, N_ITER, mfkg_acqf, final_rec, printed_total_cost>>

Cell21(f, opt) == Recommend("cell21", "done", f, opt)

\* the possible results of generate_initial_data(n=16)
InitialData == generate_initial_data(N_INIT)

Next ==
    \/ \E f \in 0..Len(GenStages), data \in InitialData : Cell12(f, data)
    \/ Cell14Head
    \/ \E f \in 0..Len(KGStages), c \in OptimizeAcqfMixed(fixed_features_list, Q_BATCH) :
          KGIteration(f, c)
    \/ \E f \in 0..Len(RecStages), opt \in OptimizeAcqf(1, DIM - 1) : Cell17(f, opt)
    \/ \E f \in 0..Len(GenStages), data \in InitialData : Cell20Head(f, data)
    \/ \E f \in 0..Len(EIStages), opt \in OptimizeAcqf(Q_BATCH, DIM - 1) : EIIteration(f, opt)
    \/ \E f \in 0..Len(RecStages), opt \in OptimizeAcqf(1, DIM - 1) : Cell21(f, opt)

Spec == Init /\ [][Next]_vars

(* ------------------------------ properties ----------------------------- *)

\* the states between two iterations of a loop, and after its last one
AtLoopBoundary == pc \in {"kg_loop", "cell17", "cell20", "ei_loop", "cell21", "done"}

InEIRun == pc \in {"ei_loop", "cell21", "done"}

FidelityLevels == {50, 75, 100}

\* rows of train_x that were acquired by a loop (the first N_INIT are initial)
Acquired == (N_INIT + 1)..Len(train_x)

\* C1: at every loop boundary of both loops train_x and train_obj have the
\* same number of rows, train_x has 7 columns and train_obj 1 column, and
\* after k completed iterations both hold exactly 16 + 4k rows.
C1_ShapeConsistency ==
    AtLoopBoundary =>
        /\ Len(train_x) = Len(train_obj)
        /\ \A i \in 1..Len(train_x) : Len(train_x[i]) = 7
        /\ \A i \in 1..Len(train_obj) : Len(train_obj[i]) = 1
        /\ Len(train_x) = 16 + 4 * it
        /\ Len(train_obj) = 16 + 4 * it

C1_Witness == pc = "cell21" /\ it = 3 /\ Len(train_x) = 28 /\ Len(train_obj) = 28

\* C2: every point of a training set, initial or acquired, in both runs, has
\* its 7th coordinate (the fidelity) in {0.5, 0.75, 1.0}.
C2_FidelityInLevels ==
    \A i \in 1..Len(train_x) : train_x[i][7] \in FidelityLevels

C2_Witness ==
    /\ pc = "cell17"
    /\ \E i \in 1..N_INIT : train_x[i][7] = 50
    /\ \E i \in Acquired : train_x[i][7] = 75
    /\ \E i \in Acquired : train_x[i][7] = 100

\* C3: a point at fidelity s costs 5.0 + s; at every loop boundary the
\* cumulative cost is the sum of 5.0 + s over the candidates acquired so far
\* in the run (the 16 initial points are not charged, the cost starts at 0),
\* and every iteration adds between 22.0 and 24.0.
C3_CostAccounting ==
    AtLoopBoundary =>
        /\ cumulative_cost = SumSeq([k \in 1..(Len(train_x) - N_INIT) |->
                                        500 + train_x[N_INIT + k][7]])
        /\ it = 0 => cumulative_cost = 0
        /\ it > 0 =>
              /\ cost >= 2200 /\ cost <= 2400
              /\ cost = SumSeq([k \in 1..4 |-> 500 + train_x[Len(train_x) - 4 + k][7]])
        /\ cumulative_cost >= 2200 * it
        /\ cumulative_cost <= 2400 * it

C3_Witness == pc = "cell17" /\ it = 3 /\ cumulative_cost = 6900

\* C4: every candidate of the expected-improvement run has fidelity 1.0, so
\* each of its iterations costs exactly 24.0, its total after N_ITER
\* iterations is 24.0 * N_ITER (72.0 for 3), and that total is never less
\* than the knowledge-gradient run's total.
C4_BaselineAtTargetFidelity ==
    /\ InEIRun =>
          /\ \A i \in Acquired : train_x[i][7] = 100
          /\ it > 0 => (cost = 2400 /\ \A i \in 1..Len(new_x) : new_x[i][7] = 100)
          /\ cumulative_cost = 2400 * it
    /\ pc = "done" =>
          /\ printed_total_cost[2] = 2400 * N_ITER
          /\ N_ITER = 3 => printed_total_cost[2] = 7200
          /\ printed_total_cost[2] >= printed_total_cost[1]

C4_Witness ==
    /\ pc = "done"
    /\ N_ITER = 3
    /\ printed_total_cost[2] = 7200
    /\ printed_total_cost[1] < 7200

\* C5: a run's recommendation is produced only after its loop has completed
\* all iterations, and the recommended point is one 7-coordinate point whose
\* fidelity is the target fidelity 1.0 and whose 6 design coordinates lie in
\* [0, 1].
C5_Recommendation ==
    /\ pc \in {"cell12", "cell14", "kg_loop", "cell17"} =>
          (final_rec = <<>> /\ printed_total_cost = <<>>)
    /\ pc \in {"cell20", "ei_loop", "cell21"} => Len(printed_total_cost) = 1
    /\ Len(printed_total_cost) > 0 =>
          (N_ITER \in {1, 3} /\ (pc \in {"cell20", "done"} => it = N_ITER))
    /\ final_rec # <<>> =>
          /\ Len(final_rec) = 1
          /\ Len(final_rec[1]) = 7
          /\ final_rec[1][7] = 100
          /\ \A j \in 1..6 : final_rec[1][j] >= 0 /\ final_rec[1][j] <= 100

C5_Witness ==
    /\ pc = "done"
    /\ Len(printed_total_cost) = 2
    /\ final_rec # <<>>
    /\ final_rec[1][7] = 100

\* a completed pass through a loop body
LoopStep == pc \in {"kg_loop", "ei_loop"} /\ pc' # "failed"

\* the cell that assigns N_ITER has run (0 marks the unbound name)
N_ITER_Set == N_ITER # 0

\* C6: each loop runs exactly N_ITER iterations and then ends (a completed
\* pass adds one to the count of iterations, the loop goes on while the count
\* is below N_ITER and is left when it reaches N_ITER); N_ITER is 3 when the
\* smoke-test flag is not in effect and 1 when it is, the same N_ITER governs
\* both loops, and no iteration changes it.
C6_FixedIterationCount ==
    /\ [](/\ N_ITER_Set => N_ITER = (IF Truthy(SMOKE_TEST) THEN 1 ELSE 3)
          /\ pc \in {"kg_loop", "cell17", "cell20", "ei_loop", "cell21", "done"} =>
                N_ITER_Set
          /\ pc \in {"kg_loop", "ei_loop"} => it < N_ITER
          /\ pc \in {"cell17", "cell20", "cell21", "done"} =>
                (it = N_ITER /\ Len(train_x) = N_INIT + Q_BATCH * N_ITER))
    /\ [][N_ITER_Set => N_ITER' = N_ITER]_vars
    /\ [][LoopStep => (it' = it + 1 /\ (pc' = pc <=> it' < N_ITER))]_vars

C6_Witness ==
    /\ pc = "done"
    /\ Truthy(SMOKE_TEST)
    /\ N_ITER = 1
    /\ it = 1
    /\ Len(printed_total_cost) = 2

\* the fidelity values that the logged optimize_acqf_mixed call c enumerates
EnumeratedFidelities(c) == {c.fixed[k][6] : k \in 1..Len(c.fixed)}

MixedCalls == {c \in calls : c.fn = "optimize_acqf_mixed"}

\* C7: the knowledge-gradient step optimizes once for each fidelity s in
\* {0, 0.5, 1.0}: the set of fixed fidelity values that optimize_acqf_mixed
\* enumerates inside optimize_mfkg_and_get_observation is exactly {0, 0.5, 1.0}
\* (the helper's own description, line 176).
C7_EnumeratesZeroHalfOne ==
    \A c \in MixedCalls : EnumeratedFidelities(c) = {0, 50, 100}

\* the step of the expected-improvement cell that enters its loop
EnterEILoop == pc = "cell20" /\ pc' = "ei_loop"

\* C8 as stated: the baseline repeats steps 3 to 7 only, so it starts from
\* the initial data of step 2 (the first 16 rows of the training set, which
\* the knowledge-gradient loop only appends to).
C8_Original ==
    [][EnterEILoop =>
          /\ SubSeq(train_x', 1, N_INIT) = SubSeq(train_x, 1, N_INIT)
          /\ SubSeq(train_obj', 1, N_INIT) = SubSeq(train_obj, 1, N_INIT)]_vars

\* C8 as amended: the baseline repeats steps 2 to 7: before its loop it draws
\* a fresh set of 16 initial points with generate_initial_data and resets the
\* cost; the knowledge-gradient run's training set is dropped.
C8_Amended ==
    [][EnterEILoop =>
          /\ [x |-> train_x', obj |-> train_obj'] \in InitialData
          /\ Len(train_x) = N_INIT + Q_BATCH * N_ITER
          /\ Len(train_x') = N_INIT
          /\ cumulative_cost' = 0
          /\ it' = 0]_vars

C8_Witness ==
    /\ pc = "ei_loop"
    /\ it = 0
    /\ Len(train_x) = N_INIT
    /\ Len(printed_total_cost) = 1
    /\ Len(new_x) = Q_BATCH

\* the call made at the same place as c when the flag is unset
FullCall(c) ==
    CHOOSE u \in {GetMfkgCall(<<>>), GenOneShotCall(<<>>), MixedCall(<<>>),
                  RecCall(<<>>), EICall(<<>>)} : u.site = c.site /\ u.fn = c.fn

\* C9: with SMOKE_TEST set, the iteration count and the restart, raw-sample
\* and fantasy counts of the workflow's optimization calls are smaller than
\* with the flag unset; unset or empty, the full counts are used.
C9_SmokeTestShrinksCounts ==
    /\ Truthy(SMOKE_TEST) =>
          /\ N_ITER_Set => N_ITER < FULL_N_ITER
          /\ \A c \in calls :
                /\ c.num_restarts < FullCall(c).num_restarts
                /\ c.raw_samples < FullCall(c).raw_samples
          /\ pc \in {"cell17", "cell20", "ei_loop", "cell21", "done"} =>
                mfkg_acqf.num_fantasies < 128
    /\ ~Truthy(SMOKE_TEST) =>
          /\ N_ITER_Set => N_ITER = FULL_N_ITER
          /\ \A c \in calls : c = FullCall(c)
          /\ pc \in {"cell17", "cell20", "ei_loop", "cell21", "done"} =>
                mfkg_acqf.num_fantasies = 128

\* a step in which a library call raises, in whatever cell
Failure == pc # "failed" /\ pc' = "failed"

\* the calls of model fitting, of acquisition construction, of acquisition
\* optimization and of objective evaluation
ListedStages == {"initialize_model", "fit_gpytorch_model",
                 "get_mfkg.PosteriorMean", "get_mfkg.FixedFeatureAcquisitionFunction",
                 "get_mfkg.qMultiFidelityKnowledgeGradient", "get_ei",
                 "PosteriorMean", "FixedFeatureAcquisitionFunction",
                 "get_mfkg.optimize_acqf", "gen_one_shot_kg_initial_conditions",
                 "optimize_acqf_mixed", "optimize_acqf",
                 "problem"}

\* the calls of the three updates that end a loop body (lines 309-311 and
\* 491-493)
UpdateStages == {"torch.cat(train_x)", "torch.cat(train_obj)", "Tensor.__add__"}

\* the raising call is one of model fitting, acquisition construction or
\* optimization, objective evaluation
ListedFailure == Failure /\ failed_at' \in ListedStages

\* the raising call is any call but those of the three updates
CallFailure == Failure /\ failed_at' \notin UpdateStages

\* the raising call belongs to one of the three updates
UpdateFailure == Failure /\ failed_at' \in UpdateStages

\* the objective evaluation of generate_initial_data raises in the cell of
\* the expected-improvement run (line 484)
BaselineDataFailure == Failure /\ pc = "cell20"

\* C10 as stated: a failure of model fitting, acquisition construction or
\* optimization, or objective evaluation is not caught, the run stops at the
\* failing stage, and train_x, train_obj and cumulative_cost keep the values
\* they had after the last completed iteration.
C10_Original ==
    /\ [][ListedFailure =>
             /\ train_x' = train_x
             /\ train_obj' = train_obj
             /\ cumulative_cost' = cumulative_cost]_vars
    /\ [][pc # "failed"]_vars

\* C10 as amended: no failure is caught and the run stops at the failing
\* stage.  When model fitting, acquisition construction or optimization, or
\* objective evaluation raises, train_x and train_obj keep the values of the
\* last completed iteration, and so does cumulative_cost, except in the cell
\* of the expected-improvement run before its loop: there the cost is reset
\* to 0 (line 482) before generate_initial_data evaluates the objective
\* (line 484), so a failure leaves the cost at 0 with the training set of the
\* knowledge-gradient run.  An iteration makes its three updates after all
\* of those calls have succeeded; the updates are separate statements (when
\* the second torch.cat raises train_x is 4 rows longer than train_obj, when
\* the addition raises both are, and the cost is as before).
C10_Amended ==
    /\ [][CallFailure =>
             /\ train_x' = train_x
             /\ train_obj' = train_obj
             /\ it' = it
             /\ <<new_x', new_obj', cost'>> = <<new_x, new_obj, cost>>
             /\ failed_at' = "initialize_model" => model' = model
             /\ failed_at' \in {"initialize_model", "fit_gpytorch_model",
                                "get_mfkg.PosteriorMean",
                                "get_mfkg.FixedFeatureAcquisitionFunction",
                                "get_mfkg.optimize_acqf",
                                "get_mfkg.qMultiFidelityKnowledgeGradient"} =>
                    (mfkg_acqf' = mfkg_acqf /\ ei_acqf' = ei_acqf)
             /\ failed_at' = "get_ei" => ei_acqf' = ei_acqf
             /\ failed_at' # "Tensor.__format__" => final_rec' = final_rec
             /\ printed_total_cost' = printed_total_cost]_vars
    /\ [][CallFailure /\ ~BaselineDataFailure =>
             cumulative_cost' = cumulative_cost]_vars
    /\ [][CallFailure /\ pc \in {"kg_loop", "ei_loop", "cell17", "cell21"} =>
             Len(train_x') = N_INIT + Q_BATCH * it']_vars
    /\ [][BaselineDataFailure =>
             /\ failed_at' = "problem"
             /\ cumulative_cost' = 0
             /\ cumulative_cost = printed_total_cost[1]
             /\ cumulative_cost >= 2200 * N_ITER
             /\ Len(train_x') = N_INIT + Q_BATCH * N_ITER]_vars
    /\ [][UpdateFailure =>
             /\ pc \in {"kg_loop", "ei_loop"}
             /\ cumulative_cost' = cumulative_cost
             /\ it' = it
             /\ Len(new_x') = Q_BATCH
             /\ Len(new_obj') = Q_BATCH
             /\ failed_at' = "torch.cat(train_x)" =>
                    (train_x' = train_x /\ train_obj' = train_obj)
             /\ failed_at' = "torch.cat(train_obj)" =>
                    (train_x' = Cat0(train_x, new_x') /\ train_obj' = train_obj)
             /\ failed_at' = "Tensor.__add__" =>
                    (train_x' = Cat0(train_x, new_x')
                     /\ train_obj' = Cat0(train_obj, new_obj'))]_vars
    /\ [][pc # "failed"]_vars

C10_Witness ==
    /\ pc = "failed"
    /\ failed_at = "optimize_acqf_mixed"
    /\ it = 2
    /\ Len(train_x) = 24
    /\ Len(train_obj) = 24

\* the logged calls that generate the initial conditions of the MFKG step
GenOneShotCalls == {c \in calls : c.fn = "gen_one_shot_kg_initial_conditions"}

\* C11: in optimize_mfkg_and_get_observation the number of restarts given to
\* gen_one_shot_kg_initial_conditions equals the number given to
\* optimize_acqf_mixed, which receives those initial conditions, and likewise
\* the raw-sample counts, with the smoke-test flag in effect or not.
C11_InitialConditionCountsAgree ==
    \A g \in GenOneShotCalls, m \in MixedCalls :
        /\ g.num_restarts = m.num_restarts
        /\ g.raw_samples = m.raw_samples

====
